---- MODULE Spec2Model ----
(***************************************************************************)
(* tiler: cuts a source image into a pyramid of square tiles.              *)
(* main validates its flags and arguments, decodes the source, and starts  *)
(* one SplitTiles goroutine per zoom level; SplitTiles resizes the source  *)
(* and starts one goroutine per grid row; a row goroutine calls Crop for   *)
(* every column of its row; Crop creates the tile file and encodes into it.*)
(* Strings are sequences of one-character strings.                         *)
(***************************************************************************)
EXTENDS Integers, Sequences, FiniteSets, TLC

VARIABLES
    flagTileSize,    \* -size
    flagJpegQuality, \* -q
    flagEncoding,    \* -e
    flagPattern,     \* -p
    flagInterpFunc,  \* -interp
    flagOutDir,      \* -o
    args,            \* flag.Args(): the positional arguments
    pc,              \* where main is
    exit,            \* how main ended: "none", "fatal", "return", "done"
    printed,          \* what main printed: set of message kinds
    interpFunc,      \* main's local: the kernel handed to SplitTiles
    outDir,          \* the output directory: "absent", "present", "created"
    src,             \* the source file f: "unopened", "open", "closed"
    img,             \* the decoded source raster: "nil" or "source"
    level,           \* main's local: the parsed level
    i,               \* main's loop variable
    wg,              \* main's WaitGroup counter
    lw,              \* the SplitTiles goroutines, by level
    row,             \* the row goroutines, by <<level, y>>
    cropCalls,       \* number of Crop calls so far, by <<level, x, y>>
    files,           \* the files of the output directory, by path
    logged,          \* the per-tile errors logged so far
    probe            \* the call under evaluation when a function is checked alone

vars == <<flagTileSize, flagJpegQuality, flagEncoding, flagPattern, flagInterpFunc,
          flagOutDir, args, pc, exit, printed, interpFunc, outDir, src, img, level, i, wg,
          lw, row, cropCalls, files, logged, probe>>

flags == <<flagTileSize, flagJpegQuality, flagEncoding, flagPattern, flagInterpFunc,
           flagOutDir, args>>

-----------------------------------------------------------------------------
(* Bounds *)

\* the largest level argument tried
MaxLevel == 1

\* the largest number of tile writes the environment lets fail in one run
MaxFail == 2

\* the largest level and tile size of the grids Crop is evaluated on alone
MaxGridLevel == 3
MaxGridSize == 3

\* the largest level SplitTiles' integer arithmetic is evaluated for
MaxShift == 65

-----------------------------------------------------------------------------
(* Strings *)

DigitChars == <<"0", "1", "2", "3", "4", "5", "6", "7", "8", "9">>

IsDigit(c) == \E d \in 1..10 : DigitChars[d] = c

DigitVal(c) == (CHOOSE d \in 1..10 : DigitChars[d] = c) - 1

RECURSIVE FormatNat(_)
FormatNat(n) ==
    IF n < 10 THEN <<DigitChars[n + 1]>>
    ELSE FormatNat(n \div 10) \o <<DigitChars[(n % 10) + 1]>>

\* strconv.Itoa
Itoa(n) == IF n < 0 THEN <<"-">> \o FormatNat(-n) ELSE FormatNat(n)

RECURSIVE DigitsVal(_, _)
DigitsVal(s, acc) ==
    IF s = <<>> THEN acc ELSE DigitsVal(Tail(s), acc * 10 + DigitVal(Head(s)))

\* strconv.ParseInt(s, 10, 64): an optional sign, then one or more digits
ParseInt(s) ==
    LET signed == s # <<>> /\ Head(s) \in {"+", "-"}
        body   == IF signed THEN Tail(s) ELSE s
    IN  IF body = <<>> \/ \E k \in 1..Len(body) : ~IsDigit(body[k])
        THEN [err |-> TRUE, val |-> 0]
        ELSE [err |-> FALSE,
              val |-> IF signed /\ Head(s) = "-" THEN -DigitsVal(body, 0)
                      ELSE DigitsVal(body, 0)]

HasPrefixAt(s, old, k) ==
    /\ k + Len(old) - 1 <= Len(s)
    /\ \A j \in 1..Len(old) : s[k + j - 1] = old[j]

RECURSIVE ReplaceFrom(_, _, _, _)
ReplaceFrom(s, old, new, k) ==
    IF k > Len(s) THEN <<>>
    ELSE IF HasPrefixAt(s, old, k) THEN new \o ReplaceFrom(s, old, new, k + Len(old))
    ELSE <<s[k]>> \o ReplaceFrom(s, old, new, k + 1)

\* as Replace, with n = 1: only the first occurrence is replaced
ReplaceFirst(s, old, new) ==
    IF \E k \in 1..Len(s) : HasPrefixAt(s, old, k)
    THEN LET k == CHOOSE m \in 1..Len(s) :
                      /\ HasPrefixAt(s, old, m)
                      /\ \A n \in 1..(m - 1) : ~HasPrefixAt(s, old, n)
         IN  SubSeq(s, 1, k - 1) \o new \o SubSeq(s, k + Len(old), Len(s))
    ELSE s

\* strings.Replace(s, old, new, -1) for a non-empty old
Replace(s, old, new) == ReplaceFrom(s, old, new, 1)

PhZoom == <<"{", "z", "o", "o", "m", "}">>
PhX == <<"{", "x", "}">>
PhY == <<"{", "y", "}">>

\* as fileName, with x substituted for {y} as well
fileNameYIsX(p, zoom, x, y) ==
    LET p1 == Replace(p, PhZoom, Itoa(zoom))
        p2 == Replace(p1, PhX, Itoa(x))
    IN  Replace(p2, PhY, Itoa(x))

fileName(p, zoom, x, y) ==
    LET p1 == Replace(p, PhZoom, Itoa(zoom))
        p2 == Replace(p1, PhX, Itoa(x))
    IN  Replace(p2, PhY, Itoa(y))

\* filepath.Join(dir, name) for a clean dir and a name without separators
Join(dir, name) == dir \o <<"/">> \o name

\* filepath.Ext: the suffix from the last dot of the last path element
RECURSIVE Ext(_)
Ext(s) ==
    IF s = <<>> \/ s[Len(s)] = "/" THEN <<>>
    ELSE IF s[Len(s)] = "." THEN <<".">>
    ELSE LET e == Ext(SubSeq(s, 1, Len(s) - 1))
         IN  IF e = <<>> THEN <<>> ELSE e \o <<s[Len(s)]>>

-----------------------------------------------------------------------------
(* Configuration *)

\* as validEncodings, with an encoding Crop's switch has no case for
validEncodingsWithGif == <<"png", "jpeg", "gif">>

validEncodings == <<"png", "jpeg">>

\* the kernels of the resize package, by their numeric value
KernelNames == <<"NearestNeighbor", "Bilinear", "Bicubic", "MitchellNetravali",
                 "Lanczos2", "Lanczos3">>

\* interpFuncs: the map from kernel names to kernels (numbered from 0)
HasKernel(name) == \E k \in 1..Len(KernelNames) : KernelNames[k] = name

interpFuncs(name) ==
    IF HasKernel(name)
    THEN (CHOOSE k \in 1..Len(KernelNames) : KernelNames[k] = name) - 1
    ELSE 0   \* a missing key reads as the zero value

DefaultPattern ==
    <<"{", "z", "o", "o", "m", "}", "_", "{", "x", "}", "_", "{", "y", "}",
      ".", "p", "n", "g">>


\* the zoom levels a run can be asked for, and their rows and tiles
Levels == 0..MaxLevel
Side(l) == 2 ^ l
Rows == {<<l, y>> : l \in Levels, y \in 0..(Side(MaxLevel) - 1)}
Tiles == {<<l, x, y>> : l \in Levels, x \in 0..(Side(MaxLevel) - 1),
                        y \in 0..(Side(MaxLevel) - 1)}

-----------------------------------------------------------------------------
(* The command lines and environments tried *)

TileSizes == {-1, 0, 2}
Encodings == {"png", "jpeg", "gif"}
InterpNames == {"Bicubic", "Foo"}
ConstantPattern == <<"t", ".", "p", "n", "g">>
OddPattern == <<"{", "x", "}", "{", "x", "}", "{", "q", "}">>
Patterns == {DefaultPattern, ConstantPattern, OddPattern}
LevelArgs == {Itoa(n) : n \in (-1)..MaxLevel} \cup {<<"x">>}
SourceFiles == {<<"a", ".", "p", "n", "g">>, <<"a", ".", "b", "m", "p">>,
                <<"a", ".", "j", "p", "g">>}
ArgLists ==
    {<<l, f>> : l \in LevelArgs, f \in SourceFiles}
    \cup {<<>>, <<Itoa(1)>>, <<Itoa(1), <<"a", ".", "p", "n", "g">>, <<"b">>>>}

\* fileName on the patterns and tiles of these runs
TileNames == [p \in Patterns, t \in Tiles |-> fileName(p, t[1], t[2], t[3])]

\* every path a tile of these runs can be written to
AllPaths ==
    {Join(<<"t", "i", "l", "e", "s">>, TileNames[p, t]) : p \in Patterns, t \in Tiles}

\* what a path of the output directory holds: no file, a file without data
\* (created or truncated by os.Create), or a file with an encoded tile
Absent == [exists |-> FALSE, data |-> <<>>]
Empty == [exists |-> TRUE, data |-> <<>>]
Holding(t) == [exists |-> TRUE, data |-> <<t>>]

NoLevel == [pc |-> "none", y |-> 0, lwg |-> 0, interp |-> 0, resized |-> <<>>]
\* image.Rect(x0, y0, x1, y1): the rectangle with these corners, well-formed
Rect(x0, y0, x1, y1) ==
    [min |-> <<IF x0 > x1 THEN x1 ELSE x0, IF y0 > y1 THEN y1 ELSE y0>>,
     max |-> <<IF x0 > x1 THEN x0 ELSE x1, IF y0 > y1 THEN y0 ELSE y1>>]

\* as CropArea, with the column and the row exchanged
CropAreaTransposed(tileSize, x, y) ==
    Rect(y * tileSize, x * tileSize, tileSize + y * tileSize, tileSize + x * tileSize)

\* Crop's area: the rectangle of the resized raster the tile (x, y) is cut from
CropArea(tileSize, x, y) ==
    Rect(x * tileSize, y * tileSize, tileSize + x * tileSize, tileSize + y * tileSize)

\* Crop's tile: the bounds of the tile buffer dst
CropTile(tileSize) == Rect(0, 0, tileSize, tileSize)

\* a tile buffer: its bounds, the level whose resized raster it was drawn from
\* and the point of that raster drawn at its origin
NoDst == [bounds |-> Rect(0, 0, 0, 0), from |-> -1, sp |-> <<0, 0>>]

NoRow == [pc |-> "none", x |-> 0, dst |-> NoDst]

NoProbe == [fn |-> "none"]

Init ==
    /\ flagTileSize \in TileSizes
    /\ flagJpegQuality = 5
    /\ flagEncoding \in Encodings
    /\ flagPattern \in Patterns
    /\ flagInterpFunc \in InterpNames
    /\ flagOutDir = <<"t", "i", "l", "e", "s">>
    /\ args \in ArgLists
    /\ pc = "flags"
    /\ exit = "none"
    /\ printed = {}
    /\ interpFunc = 0
    /\ outDir \in {"absent", "present"}
    /\ src = "unopened"
    /\ img = "nil"
    /\ level = 0
    /\ i = 0
    /\ wg = 0
    /\ lw = [l \in Levels |-> NoLevel]
    /\ row = [r \in Rows |-> NoRow]
    /\ cropCalls = [t \in Tiles |-> 0]
    /\ files = [p \in AllPaths |-> Absent]
    /\ logged = {}
    /\ probe = NoProbe

-----------------------------------------------------------------------------
(* main *)

workers == <<wg, lw, row, cropCalls, files, logged>>

Fatal(msg) ==
    /\ exit' = "fatal"
    /\ pc' = "exit"
    /\ printed' = printed \cup {msg}

\* a return from main; one after the source was opened also runs f.Close()
Return(msg) ==
    /\ exit' = "return"
    /\ pc' = "exit"
    /\ printed' = printed \cup {msg}

\* as ParseFlags, with the argument check len(args) < 2
ParseFlagsAtLeastTwo ==
    /\ pc = "flags"
    /\ IF flagTileSize <= 0
       THEN /\ Fatal("tile size must be a positive integer")
            /\ UNCHANGED interpFunc
       ELSE /\ interpFunc' = interpFuncs(flagInterpFunc)
            /\ LET out == IF HasKernel(flagInterpFunc) THEN printed
                          ELSE printed \cup {"Valid interpolation function parameters:"}
                   found == \E k \in 1..Len(validEncodings) :
                                validEncodings[k] = flagEncoding
               IN  IF ~found
                   THEN /\ exit' = "fatal"
                        /\ pc' = "exit"
                        /\ printed' = out \cup {"unsupported encoding:"}
                   ELSE IF Len(args) < 2
                   THEN /\ exit' = "return"
                        /\ pc' = "exit"
                        /\ printed' = out \cup {"usage: tiler [1-n] [filename]"}
                   ELSE /\ pc' = "dir"
                        /\ printed' = out
                        /\ UNCHANGED exit
    /\ UNCHANGED <<flags, probe, outDir, src, img, level, i, workers>>

\* flag.Parse() to the argument count check
ParseFlags ==
    /\ pc = "flags"
    /\ IF flagTileSize <= 0
       THEN /\ Fatal("tile size must be a positive integer")
            /\ UNCHANGED interpFunc
       ELSE /\ interpFunc' = interpFuncs(flagInterpFunc)
            /\ LET out == IF HasKernel(flagInterpFunc) THEN printed
                          ELSE printed \cup {"Valid interpolation function parameters:"}
                   found == \E k \in 1..Len(validEncodings) :
                                validEncodings[k] = flagEncoding
               IN  IF ~found
                   THEN /\ exit' = "fatal"
                        /\ pc' = "exit"
                        /\ printed' = out \cup {"unsupported encoding:"}
                   ELSE IF Len(args) # 2
                   THEN /\ exit' = "return"
                        /\ pc' = "exit"
                        /\ printed' = out \cup {"usage: tiler [1-n] [filename]"}
                   ELSE /\ pc' = "dir"
                        /\ printed' = out
                        /\ UNCHANGED exit
    /\ UNCHANGED <<flags, probe, outDir, src, img, level, i, workers>>

\* os.Stat(flagOutDir) and, when the directory is missing, os.MkdirAll
SetupDir ==
    /\ pc = "dir"
    /\ \E statErr \in BOOLEAN, mkdirErr \in BOOLEAN :
          IF statErr
          THEN Return("stat") /\ UNCHANGED outDir
          ELSE IF outDir = "absent"
          THEN IF mkdirErr
               THEN Return("mkdir") /\ UNCHANGED outDir
               ELSE /\ outDir' = "created"
                    /\ pc' = "open"
                    /\ UNCHANGED <<exit, printed>>
          ELSE /\ pc' = "open"
               /\ UNCHANGED <<exit, printed, outDir>>
    /\ UNCHANGED <<flags, probe, interpFunc, src, img, level, i, workers>>

\* os.Open(args[1])
OpenSource ==
    /\ pc = "open"
    /\ \E openErr \in BOOLEAN :
          IF openErr
          THEN Return("open") /\ UNCHANGED src
          ELSE /\ src' = "open"
               /\ pc' = "decode"
               /\ UNCHANGED <<exit, printed>>
    /\ UNCHANGED <<flags, probe, interpFunc, outDir, img, level, i, workers>>

\* as Decode, without the return after a decoding error
DecodeIgnoresError ==
    /\ pc = "decode"
    /\ LET ext == Ext(args[2])
       IN  IF ext \in {<<".", "p", "n", "g">>, <<".", "b", "m", "p">>}
           THEN \E decodeErr \in BOOLEAN :
                  IF decodeErr
                  THEN /\ printed' = printed \cup {"decode"}
                       /\ pc' = "level"
                       /\ UNCHANGED <<exit, src, img>>
                  ELSE /\ img' = "source"
                       /\ pc' = "level"
                       /\ UNCHANGED <<exit, printed, src>>
           ELSE Fatal("unsupported file format") /\ UNCHANGED <<src, img>>
    /\ UNCHANGED <<flags, probe, interpFunc, outDir, level, i, workers>>

\* the switch on the extension of the source file name
Decode ==
    /\ pc = "decode"
    /\ LET ext == Ext(args[2])
       IN  IF ext \in {<<".", "p", "n", "g">>, <<".", "b", "m", "p">>}
           THEN \E decodeErr \in BOOLEAN :
                  IF decodeErr
                  THEN Return("decode") /\ src' = "closed" /\ UNCHANGED img
                  ELSE /\ img' = "source"
                       /\ pc' = "level"
                       /\ UNCHANGED <<exit, printed, src>>
           ELSE Fatal("unsupported file format") /\ UNCHANGED <<src, img>>
    /\ UNCHANGED <<flags, probe, interpFunc, outDir, level, i, workers>>

\* strconv.ParseInt(args[0], 10, 64) and the level check
ParseLevel ==
    /\ pc = "level"
    /\ LET r == ParseInt(args[1])
       IN  IF r.err
           THEN Fatal("invalid syntax") /\ UNCHANGED <<level, i>>
           ELSE IF r.val = 0
           THEN Fatal("level must be at least 1") /\ UNCHANGED <<level, i>>
           ELSE /\ level' = r.val
                /\ i' = r.val
                /\ pc' = "spawn"
                /\ UNCHANGED <<exit, printed>>
    /\ UNCHANGED <<flags, probe, interpFunc, outDir, src, img, workers>>

\* as SpawnLevel, with the loop condition i > 0: level 0 is never started
SpawnLevelSkipsZero ==
    /\ pc = "spawn"
    /\ i >= 0
    /\ wg' = IF i > 0 THEN wg + 1 ELSE wg
    /\ lw' = IF i > 0
             THEN [lw EXCEPT ![i] = [pc |-> "start", y |-> 0, lwg |-> 0,
                                     interp |-> interpFunc, resized |-> <<>>]]
             ELSE lw
    /\ i' = i - 1
    /\ UNCHANGED <<flags, probe, pc, exit, printed, interpFunc, outDir, src, img, level,
                   row, cropCalls, files, logged>>

\* one iteration of main's loop: wg.Add(1); go SplitTiles(...)
SpawnLevel ==
    /\ pc = "spawn"
    /\ i >= 0
    /\ wg' = wg + 1
    /\ lw' = [lw EXCEPT ![i] = [pc |-> "start", y |-> 0, lwg |-> 0,
                                interp |-> interpFunc, resized |-> <<>>]]
    /\ i' = i - 1
    /\ UNCHANGED <<flags, probe, pc, exit, printed, interpFunc, outDir, src, img, level,
                   row, cropCalls, files, logged>>

\* wg.Wait() returns and main ends, closing the source file
MainWait ==
    /\ pc = "spawn"
    /\ i < 0
    /\ wg = 0
    /\ pc' = "exit"
    /\ exit' = "done"
    /\ src' = "closed"
    /\ UNCHANGED <<flags, probe, printed, interpFunc, outDir, img, level, i, workers>>

-----------------------------------------------------------------------------
(* SplitTiles and its row goroutines *)

mainVars == <<pc, exit, printed, interpFunc, outDir, src, img, level, i>>

\* as SplitResize, with every level below the top one resampled from the
\* resized raster of the level above it
SplitResizeFromLevelAbove(l) ==
    /\ lw[l].pc = "start"
    /\ LET side == Side(l)
           width == side * flagTileSize
       IN  lw' = [lw EXCEPT ![l].pc = "rows",
                            ![l].y = 0,
                            ![l].resized = [width |-> width, height |-> width,
                                            from |-> IF l < level THEN "resized"
                                                     ELSE img,
                                            interp |-> lw[l].interp]]
    /\ UNCHANGED <<flags, probe, mainVars, wg, row, cropCalls, files, logged>>

\* side, width, height and the call of resize.Resize
SplitResize(l) ==
    /\ lw[l].pc = "start"
    /\ LET side == Side(l)
           width == side * flagTileSize
       IN  lw' = [lw EXCEPT ![l].pc = "rows",
                            ![l].y = 0,
                            ![l].resized = [width |-> width, height |-> width,
                                            from |-> img, interp |-> lw[l].interp]]
    /\ UNCHANGED <<flags, probe, mainVars, wg, row, cropCalls, files, logged>>

\* as SplitGo, with the row goroutine's column loop starting at x = 1
SplitGoFromColumnOne(l) ==
    /\ lw[l].pc = "rows"
    /\ lw[l].y < Side(l)
    /\ lw' = [lw EXCEPT ![l].lwg = @ + 1, ![l].y = @ + 1]
    /\ row' = [row EXCEPT ![<<l, lw[l].y>>] = [pc |-> "loop", x |-> 1, dst |-> NoDst]]
    /\ UNCHANGED <<flags, probe, mainVars, wg, cropCalls, files, logged>>

\* one iteration of the row loop: lwg.Add(1); go func(row int)
SplitGo(l) ==
    /\ lw[l].pc = "rows"
    /\ lw[l].y < Side(l)
    /\ lw' = [lw EXCEPT ![l].lwg = @ + 1, ![l].y = @ + 1]
    /\ row' = [row EXCEPT ![<<l, lw[l].y>>] = [pc |-> "loop", x |-> 0, dst |-> NoDst]]
    /\ UNCHANGED <<flags, probe, mainVars, wg, cropCalls, files, logged>>

\* as SplitWait, without lwg.Wait(): SplitTiles returns with rows running
SplitWaitNoBarrier(l) ==
    /\ lw[l].pc = "rows"
    /\ lw[l].y >= Side(l)
    /\ lw' = [lw EXCEPT ![l].pc = "done"]
    /\ wg' = wg - 1
    /\ UNCHANGED <<flags, probe, mainVars, row, cropCalls, files, logged>>

\* lwg.Wait() returns, SplitTiles returns and its deferred wg.Done() runs
SplitWait(l) ==
    /\ lw[l].pc = "rows"
    /\ lw[l].y >= Side(l)
    /\ lw[l].lwg = 0
    /\ lw' = [lw EXCEPT ![l].pc = "done"]
    /\ wg' = wg - 1
    /\ UNCHANGED <<flags, probe, mainVars, row, cropCalls, files, logged>>

\* dst after draw.Draw(dst, tile.Bounds(), img, area.Bounds().Min, draw.Src),
\* img being the resized raster of the row goroutine's own level
Draw(l, x, y) ==
    [bounds |-> CropTile(flagTileSize), from |-> l,
     sp |-> CropArea(flagTileSize, x, y).min]

\* the path Crop writes the tile (level, x, y) to
CropPath(l, x, y) == Join(flagOutDir, TileNames[flagPattern, <<l, x, y>>])

\* as CropCreate, with a failed create ending the row's column loop
CropCreateAbortsRow(l, y) ==
    LET r == row[<<l, y>>]
        path == CropPath(l, r.x, y)
    IN  /\ r.pc = "loop"
        /\ r.x < Side(l)
        /\ cropCalls' = [cropCalls EXCEPT ![<<l, r.x, y>>] = @ + 1]
        /\ \E createErr \in BOOLEAN :
              IF createErr
              THEN /\ Cardinality(logged) < MaxFail
                   /\ logged' = logged \cup {<<l, r.x, y, "create">>}
                   /\ row' = [row EXCEPT ![<<l, y>>].x = Side(l)]
                   /\ UNCHANGED files
              ELSE /\ files' = [files EXCEPT ![path] = Empty]
                   /\ row' = [row EXCEPT ![<<l, y>>].pc = "crop",
                                          ![<<l, y>>].dst = Draw(l, r.x, y)]
                   /\ UNCHANGED logged
        /\ UNCHANGED <<flags, probe, mainVars, wg, lw>>

\* Crop up to os.Create: the tile buffer is drawn and the file is created
\* (truncated); a failed create is logged and Crop returns
CropCreate(l, y) ==
    LET r == row[<<l, y>>]
        path == CropPath(l, r.x, y)
    IN  /\ r.pc = "loop"
        /\ r.x < Side(l)
        /\ cropCalls' = [cropCalls EXCEPT ![<<l, r.x, y>>] = @ + 1]
        /\ \E createErr \in BOOLEAN :
              IF createErr
              THEN /\ Cardinality(logged) < MaxFail
                   /\ logged' = logged \cup {<<l, r.x, y, "create">>}
                   /\ row' = [row EXCEPT ![<<l, y>>].x = @ + 1]
                   /\ UNCHANGED files
              ELSE /\ files' = [files EXCEPT ![path] = Empty]
                   /\ row' = [row EXCEPT ![<<l, y>>].pc = "crop",
                                          ![<<l, y>>].dst = Draw(l, r.x, y)]
                   /\ UNCHANGED logged
        /\ UNCHANGED <<flags, probe, mainVars, wg, lw>>

\* as CropEncode, with one tile buffer per level shared by its row goroutines:
\* the buffer encoded is the one drawn last, by any of them inside Crop
CropEncodeSharedBuffer(l, y) ==
    LET r == row[<<l, y>>]
        path == CropPath(l, r.x, y)
    IN  /\ r.pc = "crop"
        /\ \E encodeErr \in BOOLEAN :
              IF encodeErr \/ flagEncoding \notin {"png", "jpeg"}
              THEN /\ Cardinality(logged) < MaxFail
                   /\ logged' = logged \cup {<<l, r.x, y, "encode">>}
                   /\ UNCHANGED files
              ELSE /\ \E r2 \in Rows :
                         /\ r2[1] = l
                         /\ row[r2].pc = "crop"
                         /\ files' = [files EXCEPT ![path] =
                                         Holding(<<r2[1], row[r2].x, r2[2]>>)]
                   /\ UNCHANGED logged
        /\ row' = [row EXCEPT ![<<l, y>>] = [pc |-> "loop", x |-> r.x + 1, dst |-> NoDst]]
        /\ UNCHANGED <<flags, probe, mainVars, wg, lw, cropCalls>>

\* Crop from the encoding switch to its return: the tile is encoded into the
\* file, an encoder error is logged, the file is closed
CropEncode(l, y) ==
    LET r == row[<<l, y>>]
        path == CropPath(l, r.x, y)
    IN  /\ r.pc = "crop"
        /\ \E encodeErr \in BOOLEAN :
              IF encodeErr \/ flagEncoding \notin {"png", "jpeg"}
              THEN /\ Cardinality(logged) < MaxFail
                   /\ logged' = logged \cup
                         {<<l, r.x, y, IF flagEncoding \in {"png", "jpeg"}
                                       THEN "encode"
                                       ELSE "encoding not supported">>}
                   /\ UNCHANGED files
              ELSE /\ files' = [files EXCEPT ![path] = Holding(<<l, r.x, y>>)]
                   /\ UNCHANGED logged
        /\ row' = [row EXCEPT ![<<l, y>>] = [pc |-> "loop", x |-> r.x + 1, dst |-> NoDst]]
        /\ UNCHANGED <<flags, probe, mainVars, wg, lw, cropCalls>>

\* as RowDone, without the deferred lwg.Done()
RowDoneNoDone(l, y) ==
    /\ row[<<l, y>>].pc = "loop"
    /\ row[<<l, y>>].x >= Side(l)
    /\ row' = [row EXCEPT ![<<l, y>>].pc = "done"]
    /\ UNCHANGED <<flags, probe, mainVars, wg, lw, cropCalls, files, logged>>

\* the column loop ends, the row goroutine returns and lwg.Done() runs
RowDone(l, y) ==
    /\ row[<<l, y>>].pc = "loop"
    /\ row[<<l, y>>].x >= Side(l)
    /\ row' = [row EXCEPT ![<<l, y>>].pc = "done"]
    /\ lw' = [lw EXCEPT ![l].lwg = @ - 1]
    /\ UNCHANGED <<flags, probe, mainVars, wg, cropCalls, files, logged>>

-----------------------------------------------------------------------------

Next ==
    \/ ParseFlags
    \/ SetupDir
    \/ OpenSource
    \/ Decode
    \/ ParseLevel
    \/ SpawnLevel
    \/ MainWait
    \/ \E l \in Levels : SplitResize(l)
    \/ \E l \in Levels : SplitGo(l)
    \/ \E l \in Levels : SplitWait(l)
    \/ \E r \in Rows : CropCreate(r[1], r[2])
    \/ \E r \in Rows : CropEncode(r[1], r[2])
    \/ \E r \in Rows : RowDone(r[1], r[2])

Spec == Init /\ [][Next]_vars

\* the runs of valid command lines on a PNG source
InitRun ==
    /\ Init
    /\ flagTileSize > 0
    /\ flagEncoding \in {"png", "jpeg"}
    /\ HasKernel(flagInterpFunc)
    /\ Len(args) = 2
    /\ Ext(args[2]) = <<".", "p", "n", "g">>
    /\ ~ParseInt(args[1]).err
    /\ ParseInt(args[1]).val >= 1

\* the Go scheduler runs every runnable goroutine eventually
FairSpec == InitRun /\ [][Next]_vars /\ WF_vars(Next)

-----------------------------------------------------------------------------
(* Crop's rectangles, evaluated alone over whole grids *)

progVars == <<flags, pc, exit, printed, interpFunc, outDir, src, img, level, i, wg,
              lw, row, cropCalls, files, logged>>

\* the program before main has done anything, with the flags at their defaults
Idle ==
    /\ flagTileSize = 256
    /\ flagJpegQuality = 5
    /\ flagEncoding = "png"
    /\ flagPattern = DefaultPattern
    /\ flagInterpFunc = "Bicubic"
    /\ flagOutDir = <<"t", "i", "l", "e", "s">>
    /\ args = <<>>
    /\ pc = "flags"
    /\ exit = "none"
    /\ printed = {}
    /\ interpFunc = 0
    /\ outDir = "absent"
    /\ src = "unopened"
    /\ img = "nil"
    /\ level = 0
    /\ i = 0
    /\ wg = 0
    /\ lw = [l \in Levels |-> NoLevel]
    /\ row = [r \in Rows |-> NoRow]
    /\ cropCalls = [t \in Tiles |-> 0]
    /\ files = [p \in AllPaths |-> Absent]
    /\ logged = {}

\* SplitTiles is entered for one level and one tile size
GridInit ==
    /\ Idle
    /\ \E l \in 0..MaxGridLevel, t \in 1..MaxGridSize :
          probe = [fn |-> "Crop", level |-> l, tileSize |-> t, x |-> 0, y |-> 0,
                   areas |-> {}]

\* the next Crop call of SplitTiles' loops (rows outside, columns inside):
\* its area is computed and kept
GridCrop ==
    /\ probe.fn = "Crop"
    /\ probe.y < Side(probe.level)
    /\ probe' = [probe EXCEPT
                    !.areas = @ \cup {[x |-> probe.x, y |-> probe.y,
                                       area |-> CropArea(probe.tileSize, probe.x,
                                                         probe.y)]},
                    !.x = IF probe.x + 1 < Side(probe.level) THEN probe.x + 1 ELSE 0,
                    !.y = IF probe.x + 1 < Side(probe.level) THEN @ ELSE @ + 1]
    /\ UNCHANGED progVars

GridNext == GridCrop

GridSpec == GridInit /\ [][GridNext]_vars

-----------------------------------------------------------------------------
(* SplitTiles' integer arithmetic, evaluated alone on machine words *)

\* the width of int and uint on a 64-bit build
WordBits == 64

\* a non-negative integer as the set of the positions of its one bits
BitsOf(n) == {b \in 0..30 : (n \div (2 ^ b)) % 2 = 1}

\* the exact product with 2^k
ShiftLeft(w, k) == {b + k : b \in w}

\* what a word keeps of an integer: its low WordBits bits
Wrap(w) == w \cap (0..(WordBits - 1))

Top(w) == IF w = {} THEN 0 ELSE CHOOSE b \in w : \A c \in w : c <= b

Bit(w, k) == IF k \in w THEN 1 ELSE 0

RECURSIVE AddFrom(_, _, _, _, _)
AddFrom(a, b, k, carry, top) ==
    IF k > top THEN {}
    ELSE LET sum == Bit(a, k) + Bit(b, k) + carry
         IN  (IF sum % 2 = 1 THEN {k} ELSE {}) \cup AddFrom(a, b, k + 1, sum \div 2, top)

\* the exact sum
Add(a, b) == AddFrom(a, b, 0, 0, (IF Top(a) > Top(b) THEN Top(a) ELSE Top(b)) + 1)

\* the exact product
RECURSIVE Mul(_, _)
Mul(a, b) ==
    IF a = {} THEN {}
    ELSE LET k == CHOOSE j \in a : TRUE
         IN  Add(ShiftLeft(b, k), Mul(a \ {k}, b))

\* a word read as an int is negative when its top bit is set
IsNegative(w) == (WordBits - 1) \in w

\* 1 << uint(level): a shift by WordBits or more leaves 0
MachineSide(l) == Wrap(ShiftLeft(BitsOf(1), l))

\* uint(side) * uint(tileSize)
MachineWidth(l, tileSize) == Wrap(Mul(MachineSide(l), BitsOf(tileSize)))

ArithSizes == {1, 3, 256}

\* SplitTiles is called with a level of main's loop and a valid tile size
ArithInit ==
    /\ Idle
    /\ \E l \in 0..MaxShift, t \in ArithSizes :
          probe = [fn |-> "SplitTiles", pc |-> "call", level |-> l, tileSize |-> t,
                   side |-> {}, width |-> {}]

\* side := 1 << uint(level); width := uint(side) * uint(tileSize)
SplitSide ==
    /\ probe.fn = "SplitTiles"
    /\ probe.pc = "call"
    /\ probe' = [probe EXCEPT !.pc = "resize",
                              !.side = MachineSide(probe.level),
                              !.width = MachineWidth(probe.level, probe.tileSize)]
    /\ UNCHANGED progVars

ArithNext == SplitSide

ArithSpec == ArithInit /\ [][ArithNext]_vars

-----------------------------------------------------------------------------
(* Properties *)

\* the tiles of a pyramid of depth n
Pyramid(n) == {t \in Tiles : t[1] <= n /\ t[2] < 2 ^ t[1] /\ t[3] < 2 ^ t[1]}

RECURSIVE SumPow4(_)
SumPow4(n) == IF n < 0 THEN 0 ELSE 4 ^ n + SumPow4(n - 1)

RECURSIVE SumOver(_, _)
SumOver(f, S) ==
    IF S = {} THEN 0
    ELSE LET t == CHOOSE u \in S : TRUE IN f[t] + SumOver(f, S \ {t})

\* main has passed wg.Wait() in a run with a level of at least 1
Finished == exit = "done" /\ level >= 1

\* the tile a row goroutine is writing
InFlight(r) == <<r[1], row[r].x, r[2]>>

\* C1: a valid run calls Crop exactly once for each tile of the pyramid of depth
\* level and for no other coordinate, so that it ends after 4^0 + ... + 4^level
\* calls; when no tile write fails every one of these tiles has its file, and
\* with the default pattern each file holds its own tile.
C1_CropOncePerTile ==
    /\ \A t \in Tiles : cropCalls[t] <= (IF t \in Pyramid(level) THEN 1 ELSE 0)
    /\ Finished =>
          /\ \A t \in Pyramid(level) : cropCalls[t] = 1
          /\ SumOver(cropCalls, Tiles) = SumPow4(level)
          /\ logged = {} =>
                /\ \A t \in Pyramid(level) :
                      files[CropPath(t[1], t[2], t[3])].data # <<>>
                /\ flagPattern = DefaultPattern =>
                      /\ \A t \in Pyramid(level) :
                            files[CropPath(t[1], t[2], t[3])] = Holding(t)
                      /\ Cardinality({q \in AllPaths : files[q].exists})
                            = SumPow4(level)

C1_Witness ==
    /\ Finished
    /\ logged = {}
    /\ flagPattern = DefaultPattern
    /\ cropCalls[<<1, 1, 1>>] = 1

\* C2: main passes wg.Wait() only after every SplitTiles goroutine of the
\* requested levels has returned, every row goroutine has returned and every
\* Crop call of the pyramid has been made and has returned.
C2_Barrier ==
    Finished =>
        /\ \A l \in 0..level : lw[l].pc = "done" /\ lw[l].lwg = 0
        /\ \A r \in Rows : r[1] <= level /\ r[2] < 2 ^ r[1] => row[r].pc = "done"
        /\ \A r \in Rows : row[r].pc \in {"none", "done"}
        /\ \A t \in Pyramid(level) : cropCalls[t] = 1
        /\ wg = 0

C2_Witness == Finished /\ row[<<1, 1>>].pc = "done" /\ lw[0].pc = "done"

\* two row goroutines are inside Crop with the same output path open
Collision ==
    \E r1, r2 \in Rows :
        /\ r1 # r2
        /\ row[r1].pc = "crop"
        /\ row[r2].pc = "crop"
        /\ CropPath(r1[1], row[r1].x, r1[2]) = CropPath(r2[1], row[r2].x, r2[2])

\* C3 as stated: in every run, whatever the pattern, no two concurrent Crop
\* calls target the same output path.
C3_AnyPatternNoCollision == ~Collision

\* C3 as amended: with the default pattern {zoom}_{x}_{y}.png distinct tiles
\* have distinct paths and no two concurrent Crop calls target the same path.
C3_DefaultPatternNoCollision ==
    flagPattern = DefaultPattern =>
        /\ ~Collision
        /\ pc = "flags" =>
              \A t1, t2 \in Tiles :
                  t1 # t2 =>
                      CropPath(t1[1], t1[2], t1[3]) # CropPath(t2[1], t2[2], t2[3])

C3_Witness ==
    /\ flagPattern = DefaultPattern
    /\ row[<<1, 0>>].pc = "crop"
    /\ row[<<1, 1>>].pc = "crop"
    /\ row[<<0, 0>>].pc = "crop"

\* nothing of the pyramid generation has happened
NoWork ==
    /\ wg = 0
    /\ \A l \in Levels : lw[l].pc = "none"
    /\ \A r \in Rows : row[r].pc = "none"
    /\ \A t \in Tiles : cropCalls[t] = 0
    /\ \A q \in AllPaths : files[q] = Absent

\* main has not created the output directory nor touched the source file
NoSetup == outDir # "created" /\ src = "unopened" /\ img = "nil"

\* the level argument of a run with two arguments
LevelArg == ParseInt(args[1])

\* C4 as stated: a run whose level argument parses to an integer below 1 never
\* gets past the level check: it starts no level worker, writes no tile and does
\* not end as a normal completion.
C4_LevelBelowOneRejected ==
    (Len(args) = 2 /\ ~LevelArg.err /\ LevelArg.val < 1) =>
        /\ pc # "spawn"
        /\ exit # "done"
        /\ NoWork

\* the command line has one of the configuration errors
ConfigError ==
    \/ flagTileSize <= 0
    \/ ~HasKernel(flagInterpFunc)
    \/ flagEncoding \notin {"png", "jpeg"}
    \/ /\ Len(args) = 2
       /\ \/ Ext(args[2]) \notin {<<".", "p", "n", "g">>, <<".", "b", "m", "p">>}
          \/ LevelArg.err
          \/ LevelArg.val < 1

\* C5 as stated: a run with a configuration error does no work (no directory
\* created, source not opened or decoded, no worker, no tile), and a run that
\* has ended with a fatal error has done none either.
C5_ConfigErrorBeforeWork ==
    /\ ConfigError => NoSetup /\ NoWork
    /\ exit = "fatal" => NoSetup /\ NoWork

\* C6 as stated: in a run with an unknown kernel name resize.Resize is never
\* called.
C6_UnknownKernelNoResize ==
    ~HasKernel(flagInterpFunc) => \A l \in Levels : lw[l].resized = <<>>

\* C7: after a tile has failed (create or encode) main never ends with an
\* error and the run goes on to its normal completion, main passing
\* wg.Wait(); at completion Crop has been called once for every tile of the
\* pyramid, the failed ones included, and every worker has signalled Done.
C7_TileFailureIsLocal ==
    /\ [](logged # {} =>
            /\ exit \in {"none", "done"}
            /\ exit = "done" =>
                  /\ \A t \in Pyramid(level) : cropCalls[t] = 1
                  /\ \A r \in Rows : row[r].pc \in {"none", "done"}
                  /\ \A l \in 0..level : lw[l].pc = "done" /\ lw[l].lwg = 0
                  /\ wg = 0)
    /\ (logged # {}) ~> (exit = "done")

C7_Witness ==
    /\ exit = "done"
    /\ \E t \in Tiles : <<t[1], t[2], t[3], "create">> \in logged
    /\ \E t \in Tiles : <<t[1], t[2], t[3], "encode">> \in logged
    /\ \E q \in AllPaths : files[q].data # <<>>

\* the pattern p with every {zoom}, {x} and {y} replaced in one pass from left
\* to right, every other character copied
RECURSIVE Subst(_, _, _, _, _)
Subst(p, zoom, x, y, k) ==
    LET at(ph) == k + Len(ph) - 1 <= Len(p) /\ SubSeq(p, k, k + Len(ph) - 1) = ph
    IN  IF k > Len(p) THEN <<>>
        ELSE IF at(<<"{", "z", "o", "o", "m", "}">>)
             THEN Itoa(zoom) \o Subst(p, zoom, x, y, k + 6)
        ELSE IF at(<<"{", "x", "}">>) THEN Itoa(x) \o Subst(p, zoom, x, y, k + 3)
        ELSE IF at(<<"{", "y", "}">>) THEN Itoa(y) \o Subst(p, zoom, x, y, k + 3)
        ELSE <<p[k]>> \o Subst(p, zoom, x, y, k + 1)

\* coordinates the name function is tried on
NameCoords == Tiles \cup {<<2, 3, 1>>, <<10, 12, 305>>, <<0, 11, 1>>, <<0, 1, 11>>}

\* C8: fileName replaces every {zoom}, {x}, {y} by the decimal numbers and
\* leaves the rest verbatim; {zoom}_{x}_{y}.png with (2,3,1) gives 2_3_1.png; a
\* pattern without placeholders names every tile alike, so that a run writes
\* all its tiles to one path, which holds the tile of the last encode.
C8_FileName ==
    /\ [](pc = "flags" =>
            /\ fileName(DefaultPattern, 2, 3, 1)
                 = <<"2", "_", "3", "_", "1", ".", "p", "n", "g">>
            /\ \A t \in NameCoords :
                  fileName(flagPattern, t[1], t[2], t[3])
                    = Subst(flagPattern, t[1], t[2], t[3], 1)
            /\ flagPattern = ConstantPattern =>
                  \A t \in NameCoords :
                      fileName(flagPattern, t[1], t[2], t[3]) = ConstantPattern)
    /\ [](\A r \in Rows : row[r].pc = "crop" =>
            files[Join(flagOutDir,
                       Subst(flagPattern, r[1], row[r].x, r[2], 1))].exists)
    /\ [](flagPattern = ConstantPattern =>
            /\ \A q \in AllPaths :
                  files[q].exists => q = Join(flagOutDir, ConstantPattern)
            /\ (Finished /\ logged = {}) =>
                  \E t \in Pyramid(level) :
                      files[Join(flagOutDir, ConstantPattern)] = Holding(t))
    /\ [][\A r \in Rows :
            (flagPattern = ConstantPattern /\ row[r].pc = "crop"
                /\ row'[r].pc = "loop" /\ logged' = logged)
            => files'[Join(flagOutDir, ConstantPattern)] = Holding(InFlight(r))]_vars

C8_Witness ==
    /\ Finished
    /\ flagPattern = ConstantPattern
    /\ logged = {}
    /\ SumOver(cropCalls, Tiles) = 5
    /\ files[Join(flagOutDir, ConstantPattern)].data # <<>>

\* the messages of the I/O setup errors
IOErrors == {"stat", "mkdir", "open", "decode"}

\* C9: when the output directory cannot be stat'ed or created, or the source
\* cannot be opened or decoded, main has ended by returning with nothing of the
\* pyramid generation started; the generation runs only with the directory
\* there and the source opened and decoded.
C9_SetupErrorsAbort ==
    /\ printed \cap IOErrors # {} => pc = "exit" /\ exit = "return" /\ NoWork
    /\ (pc \in {"level", "spawn"} \/ ~NoWork) =>
          /\ outDir \in {"present", "created"}
          /\ src # "unopened"
          /\ img = "source"

C9_Witness == exit = "return" /\ "decode" \in printed /\ outDir = "created"

Usage == "usage: tiler [1-n] [filename]"

\* C10 as stated: a run with other than two positional arguments ends after
\* printing the usage line, with no directory created, no source opened, no
\* worker and no tile.
C10_UsageAlways ==
    (Len(args) # 2 /\ pc = "exit") =>
        /\ exit = "return"
        /\ Usage \in printed
        /\ NoSetup
        /\ NoWork

\* C10 as amended: a run with other than two positional arguments never gets
\* past the argument check, creates no directory, opens no source, starts no
\* worker and writes no tile; it ends after printing the usage line when the
\* tile size is positive and the encoding supported, and otherwise with the
\* fatal error of that check, the usage line not printed.
C10_UsageAfterFlagChecks ==
    Len(args) # 2 =>
        /\ pc \in {"flags", "exit"}
        /\ NoSetup
        /\ NoWork
        /\ pc = "exit" =>
              IF flagTileSize > 0 /\ flagEncoding \in {"png", "jpeg"}
              THEN exit = "return" /\ Usage \in printed
              ELSE exit = "fatal" /\ Usage \notin printed

C10_Witness == Len(args) = 3 /\ exit = "return" /\ Usage \in printed

\* the pixels of a rectangle
Pixels(a) == {<<px, py>> : px \in a.min[1]..(a.max[1] - 1),
                           py \in a.min[2]..(a.max[2] - 1)}

\* the side of the resized raster of a level: width and height of SplitTiles
RasterSide(l, tileSize) == Side(l) * tileSize

\* SplitTiles' loops have called Crop for every cell of the grid
GridDone == probe.fn = "Crop" /\ probe.y >= Side(probe.level)

\* C11: for every level L and tile size T, the area Crop computes for the cell
\* (x, y) is [x*T, (x+1)*T) x [y*T, (y+1)*T), T by T pixels; over the whole
\* grid the areas are pairwise disjoint and their union is the resized raster
\* [0, 2^L*T) squared, so that every pixel (px, py) of the raster lies in the
\* area of exactly one cell, the cell (px div T, py div T), at the offset
\* (px - x*T, py - y*T) inside the tile bounds.
C11_GridPartition ==
    probe.fn = "Crop" =>
       LET T == probe.tileSize
           n == RasterSide(probe.level, T)
           raster == Pixels(Rect(0, 0, n, n))
       IN  /\ \A c \in probe.areas :
                 /\ c.area.min = <<c.x * T, c.y * T>>
                 /\ c.area.max = <<(c.x + 1) * T, (c.y + 1) * T>>
                 /\ c.area.max[1] - c.area.min[1] = T
                 /\ c.area.max[2] - c.area.min[2] = T
           /\ GridDone =>
                 /\ Cardinality(probe.areas) = Side(probe.level) * Side(probe.level)
                 /\ \A c, d \in probe.areas :
                       c # d => Pixels(c.area) \cap Pixels(d.area) = {}
                 /\ UNION {Pixels(c.area) : c \in probe.areas} = raster
                 /\ \A p \in raster :
                       LET in == {c \in probe.areas : p \in Pixels(c.area)}
                       IN  /\ Cardinality(in) = 1
                           /\ \A c \in in :
                                 /\ c.x = p[1] \div T
                                 /\ c.y = p[2] \div T
                                 /\ <<p[1] - c.x * T, p[2] - c.y * T>>
                                       \in Pixels(CropTile(T))

C11_Witness ==
    /\ GridDone
    /\ probe.level = 2
    /\ probe.tileSize = 3
    /\ Cardinality(probe.areas) = 16

\* C12: for every level SplitTiles is called with, the side and the target
\* width it computes in machine integers are the integers 2^level and
\* 2^level * tileSize: no bit is lost, and the side read as an int is
\* positive.
C12_SideAndWidthExact ==
    (probe.fn = "SplitTiles" /\ probe.pc = "resize") =>
       /\ probe.side = ShiftLeft(BitsOf(1), probe.level)
       /\ ~IsNegative(probe.side)
       /\ probe.side # {}
       /\ probe.width = Mul(ShiftLeft(BitsOf(1), probe.level), BitsOf(probe.tileSize))
       /\ probe.width # {}

\* a row goroutine is inside Crop
InCrop(r) == row[r].pc = "crop"

\* the step is one of the row goroutine r inside Crop, or entering it
CropStep(r) ==
    \/ /\ row[r].pc = "loop"
       /\ row[r].x < Side(r[1])
       /\ cropCalls'[InFlight(r)] # cropCalls[InFlight(r)]
    \/ InCrop(r) /\ row'[r] # row[r]

\* C13: every level's resized raster is resampled from the decoded source
\* raster, never from another level's; a tile buffer is drawn from the resized
\* raster of its own row goroutine's level; no step changes the decoded
\* source, a resized raster once made, or flagOutDir, flagPattern,
\* flagEncoding, flagJpegQuality; and a step of Crop changes, of the rasters,
\* buffers and files, only its own tile buffer and the file at its own path.
C13_Isolation ==
    /\ [](\A l \in Levels :
             lw[l].resized # <<>> => lw[l].resized.from = "source" /\ img = "source")
    /\ [](\A r \in Rows :
             InCrop(r) => /\ row[r].dst.from = r[1]
                          /\ lw[r[1]].resized # <<>>
                          /\ row[r].dst.bounds = CropTile(flagTileSize))
    /\ [][/\ UNCHANGED <<flagOutDir, flagPattern, flagEncoding, flagJpegQuality>>
          /\ img # "nil" => img' = img
          /\ \A l \in Levels : lw[l].resized # <<>> => lw'[l].resized = lw[l].resized
          /\ \A r \in Rows :
                CropStep(r) =>
                   /\ \A q \in AllPaths :
                         q # CropPath(r[1], row[r].x, r[2]) => files'[q] = files[q]
                   /\ \A r2 \in Rows : r2 # r => row'[r2] = row[r2]
                   /\ lw' = lw
                   /\ img' = img]_vars

C13_Witness ==
    /\ InCrop(<<0, 0>>)
    /\ InCrop(<<1, 1>>)
    /\ row[<<1, 1>>].x = 1
    /\ files[CropPath(1, 0, 0)].data # <<>>
    /\ flagPattern = DefaultPattern

\* C14: the level goroutines started are exactly those of the levels main's
\* loop has passed, one each; the row goroutines started by a level are exactly
\* those of the rows its loop has passed, one each, and never one for a row
\* outside the grid; in a row goroutine Crop has been called once for every
\* column before the current one and has returned, is running for the current
\* column only when the goroutine is inside Crop, and has not been called for
\* any later column; a goroutine holds a tile buffer only while inside Crop;
\* the column moves forward one at a time and a goroutine that has returned
\* never runs again.
C14_Dispatch ==
    /\ [](\A l \in Levels : lw[l].pc # "none" <=> (i < l /\ l <= level))
    /\ [](\A r \in Rows :
             /\ row[r].pc # "none" <=>
                   (lw[r[1]].pc \in {"rows", "done"} /\ r[2] < lw[r[1]].y)
             /\ lw[r[1]].y <= Side(r[1])
             /\ row[r].x <= Side(r[1])
             /\ row[r].dst # NoDst <=> InCrop(r)
             /\ InCrop(r) => row[r].dst.sp = CropArea(flagTileSize, row[r].x, r[2]).min
             /\ \A x \in 0..(Side(MaxLevel) - 1) :
                   cropCalls[<<r[1], x, r[2]>>] =
                      (IF x < row[r].x \/ (x = row[r].x /\ InCrop(r)) THEN 1 ELSE 0))
    /\ [][/\ \A r \in Rows :
                /\ row'[r].x \in {row[r].x, row[r].x + 1}
                /\ row[r].pc = "done" => row'[r] = row[r]
          /\ \A l \in Levels : lw[l].pc = "done" => lw'[l] = lw[l]]_vars

C14_Witness ==
    /\ InCrop(<<1, 0>>)
    /\ row[<<1, 0>>].x = 1
    /\ row[<<1, 1>>].pc = "loop"
    /\ row[<<1, 1>>].x = 0
    /\ lw[0].pc = "start"

\* the name the default pattern gives a tile, written out
DefaultName(t) ==
    Itoa(t[1]) \o <<"_">> \o Itoa(t[2]) \o <<"_">> \o Itoa(t[3]) \o <<".", "p", "n", "g">>

\* the output directory after a run of depth n with the default pattern and
\* no failed write: every tile of the pyramid at its own path, nothing else
ExpectedFiles(n) ==
    [q \in DOMAIN files |->
        IF \E t \in Pyramid(n) : q = Join(flagOutDir, DefaultName(t))
        THEN Holding(CHOOSE t \in Pyramid(n) : q = Join(flagOutDir, DefaultName(t)))
        ELSE Absent]

\* C15: with the default pattern and no failed write, the content of the
\* output directory when main passes wg.Wait() is a function of the level
\* alone, whatever the order the goroutines ran in: the file of every tile of
\* the pyramid is there, holding that tile, and there is no other file.
C15_OrderIndependent ==
    (Finished /\ flagPattern = DefaultPattern /\ logged = {}) =>
        /\ files = ExpectedFiles(level)
        /\ \A t \in Pyramid(level) :
              Join(flagOutDir, DefaultName(t)) \in DOMAIN files

C15_Witness ==
    /\ Finished
    /\ flagPattern = DefaultPattern
    /\ logged = {}
    /\ level = 1
    /\ files[Join(flagOutDir, DefaultName(<<1, 1, 0>>))] = Holding(<<1, 1, 0>>)
    /\ files[Join(flagOutDir, DefaultName(<<0, 0, 0>>))] = Holding(<<0, 0, 0>>)

\* C16: a tile whose Crop call failed, at os.Create or in the encoder, has
\* left its path as it was before the call; in a run into an empty directory
\* with the default pattern, where no other Crop call writes that path, the
\* path of every failed tile holds no file.
C16_FailedTileLeavesNothing ==
    flagPattern = DefaultPattern =>
       \A f \in logged :
          \/ InCrop(<<f[1], f[3]>>) /\ row[<<f[1], f[3]>>].x = f[2]
          \/ files[CropPath(f[1], f[2], f[3])] = Absent

\* the level goroutines running, and the row goroutines of a level running
RunningLevels == {l \in Levels : lw[l].pc \in {"start", "rows"}}
RunningRows(l) == {r \in Rows : r[1] = l /\ row[r].pc \in {"loop", "crop"}}

\* every WaitGroup counter is zero
CountersZero == wg = 0 /\ \A l \in Levels : lw[l].lwg = 0

\* C17: main's counter is at every moment the number of level goroutines
\* started and not yet returned, and a level's counter the number of its row
\* goroutines started and not yet returned (each Add is made with the start,
\* each goroutine's one Done when it returns, also after a failed tile), so no
\* counter is ever negative; main passes wg.Wait() only with every counter at
\* zero; and under fair scheduling every run that has reached main's loop
\* reaches main's normal end with every counter at zero.
C17_WaitGroups ==
    /\ [](/\ wg >= 0
          /\ wg = Cardinality(RunningLevels)
          /\ \A l \in Levels :
                /\ lw[l].lwg >= 0
                /\ lw[l].lwg = Cardinality(RunningRows(l))
          /\ (pc = "spawn" /\ i >= 0) => \A l \in Levels : l <= i => lw[l].pc = "none"
          /\ exit = "done" => CountersZero)
    /\ (pc = "spawn") ~> (exit = "done" /\ CountersZero)

C17_Witness ==
    /\ exit = "done"
    /\ CountersZero
    /\ level = 1
    /\ <<1, 0, 1, "encode">> \in logged
    /\ row[<<1, 1>>].pc = "done"

\* C18: whenever a row goroutine exists, and so on every path that reaches
\* Crop, flagEncoding is "png" or "jpeg"; the default branch of Crop's
\* encoding switch is never taken.
C18_EncodingKnownInCrop ==
    /\ \A r \in Rows : row[r].pc # "none" => flagEncoding \in {"png", "jpeg"}
    /\ \A l \in Levels : lw[l].pc # "none" => flagEncoding \in {"png", "jpeg"}
    /\ \A f \in logged : f[4] # "encoding not supported"

C18_Witness ==
    /\ InCrop(<<1, 0>>)
    /\ flagEncoding = "jpeg"
    /\ <<0, 0, 0, "encode">> \in logged

====
